---- MODULE Spec2Model ----
(***************************************************************************)
(* Model of the Python part of dekun: the letterbox transform              *)
(* (utilities.fit_tensor), the U-Net (marker/unet.py), the Marker          *)
(* lifecycle (marker/model.py), the dataset discovery (utilities.Dataset,  *)
(* marker/loader.py) and the host state machine (main.py).                 *)
(*                                                                         *)
(* Tensors are modelled by their shapes (sequences of naturals, indexed    *)
(* from 1 where Python indexes from 0).  Floating-point values are         *)
(* modelled by exact rationals <<numerator, denominator>>; Python's        *)
(* round() is modelled as round-half-to-even.  Learnable parameters are    *)
(* modelled by the layout of the state dict (channel counts per layer)     *)
(* and a version number that every optimizer step advances.                *)
(***************************************************************************)
EXTENDS Integers, Sequences, FiniteSets, TLC

VARIABLES marker, disk, saving, last, observed, epochs,
          fitIn, fitOut, netIn, netOut, dsIn, dsOut

vars == <<marker, disk, saving, last, observed, epochs,
          fitIn, fitOut, netIn, netOut, dsIn, dsOut>>

hostVars == <<marker, disk, saving, last, observed, epochs>>
fitVars == <<fitIn, fitOut>>
netVars == <<netIn, netOut>>
dsVars == <<dsIn, dsOut>>

\* ------------------------------------------------------------------ bounds
MaxDim == 4
MaxDepth == 2
MaxBatches == 2
MaxIter == 2
MaxSteps == 3

\* ------------------------------------------------------------ arithmetic
RECURSIVE Pow2(_)
Pow2(n) == IF n = 0 THEN 1 ELSE 2 * Pow2(n - 1)

RECURSIVE Gcd(_, _)
Gcd(a, b) == IF b = 0 THEN a ELSE Gcd(b, a % b)

\* The quotient num / den of two naturals (den > 0) in lowest terms.
Ratio(num, den) == LET g == Gcd(num, den) IN <<num \div g, den \div g>>

\* Python 3 round() of the non-negative rational num / den: nearest integer,
\* ties to the even neighbour.
Round(num, den) ==
    LET q == num \div den
        r == num % den
    IN  IF 2 * r < den THEN q
        ELSE IF 2 * r > den THEN q + 1
        ELSE IF q % 2 = 0 THEN q ELSE q + 1

\* ------------------------------------------------- utilities.fit_tensor
\* fit_tensor with the comparison of the aspect ratios turned around, so
\* that the wrong axis is taken as the binding one.
FitTensorMut(shape, width, height) ==
    IF Len(shape) # 3
    THEN [ok |-> FALSE, err |-> "ValueError"]
    ELSE
      LET sh == shape[2]
          sw == shape[3]
          wider == sw * height < width * sh
          new_width == IF wider THEN width ELSE Round(height * sw, sh)
          new_height == IF wider THEN Round(width * sh, sw) ELSE height
      IN  IF new_width < 1 \/ new_height < 1
          THEN [ok |-> FALSE, err |-> "RuntimeError"]
          ELSE [ok |-> TRUE, err |-> "",
                shape |-> <<shape[1], height, width>>,
                transform |-> <<(width - new_width) \div 2, (height - new_height) \div 2,
                                new_width, new_height>>,
                pad |-> <<0, 0, 0, 0>>]

\* fit_tensor(tensor, width, height) on the shape of the tensor.  The
\* result is either an error or the padded shape with the transform
\* (offset_x, offset_y, new_width, new_height) and the padding.
\* tensor_aspect > container_aspect, i.e. sw / sh > width / height, is
\* compared by cross-multiplication.
FitTensor(shape, width, height) ==
    IF Len(shape) # 3
    THEN [ok |-> FALSE, err |-> "ValueError"]
    ELSE
      LET sh == shape[2]
          sw == shape[3]
          wider == sw * height > width * sh
          new_width == IF wider THEN width ELSE Round(height * sw, sh)
          new_height == IF wider THEN Round(width * sh, sw) ELSE height
          offset_x == (width - new_width) \div 2
          offset_y == (height - new_height) \div 2
          pad_width == width - new_width
          pad_height == height - new_height
          pad_left == pad_width \div 2
          pad_right == pad_width - pad_left
          pad_top == pad_height \div 2
          pad_bottom == pad_height - pad_top
      IN  IF new_width < 1 \/ new_height < 1
          THEN \* interpolate() rejects an output size of zero
               [ok |-> FALSE, err |-> "RuntimeError"]
          ELSE [ok |-> TRUE, err |-> "",
                shape |-> <<shape[1], new_height + pad_top + pad_bottom,
                            new_width + pad_left + pad_right>>,
                transform |-> <<offset_x, offset_y, new_width, new_height>>,
                pad |-> <<pad_left, pad_right, pad_top, pad_bottom>>]

\* ------------------------------------------------------- marker/unet.py
\* The feature-width schedule of UNet.__init__: 64, 128, 256, ...
Features(depth) == [k \in 1..depth |-> 64 * Pow2(k - 1)]

Reversed(seq) == [k \in 1..Len(seq) |-> seq[Len(seq) + 1 - k]]

\* UNet(in_channels, out_channels, depth): the layers with their channel
\* counts.  With depth = 0 the feature list is empty and features[-1]
\* raises IndexError.
UNetInit(in_channels, out_channels, depth) ==
    LET features == Features(depth)
        rev == Reversed(features)
    IN  IF depth = 0
        THEN [ok |-> FALSE, err |-> "IndexError"]
        ELSE [ok |-> TRUE, err |-> "",
              downs |-> [k \in 1..depth |->
                           [in |-> IF k = 1 THEN in_channels ELSE features[k - 1],
                            out |-> features[k]]],
              bottleneck |-> [in |-> features[depth], out |-> features[depth] * 2],
              ups |-> [j \in 1..(2 * depth) |->
                         [in |-> rev[(j + 1) \div 2] * 2, out |-> rev[(j + 1) \div 2]]],
              final_convolution |-> [in |-> features[1], out |-> out_channels]]

\* A tensor in flight through the network: its shape x = <<n, c, h, w>>, the
\* skip connections collected so far and the number of layers applied.
Fail(s, e, at) == [s EXCEPT !.ok = FALSE, !.err = e, !.at = at]

\* DoubleConvolutionalBlock.forward: both convolutions keep the spatial
\* size (kernel 3, padding 1); the first one requires b.in channels.
\* BatchNorm2d in training mode rejects a single value per channel.
DoubleConvolutionalBlock(b, s, training) ==
    IF ~s.ok THEN s
    ELSE IF s.x[2] # b.in THEN Fail(s, "RuntimeError", "conv")
    ELSE IF training /\ s.x[1] * s.x[3] * s.x[4] = 1
         THEN Fail([s EXCEPT !.applied = @ + 1], "ValueError", "batch_norm")
    ELSE [s EXCEPT !.x = <<s.x[1], b.out, s.x[3], s.x[4]>>, !.applied = @ + 1]

\* MaxPool2d(kernel_size=2, stride=2): floor division of both extents.
Pool(s) ==
    IF ~s.ok THEN s
    ELSE IF s.x[3] \div 2 = 0 \/ s.x[4] \div 2 = 0 THEN Fail(s, "RuntimeError", "pool")
    ELSE [s EXCEPT !.x = <<s.x[1], s.x[2], s.x[3] \div 2, s.x[4] \div 2>>,
                   !.applied = @ + 1]

\* ConvTranspose2d(in, out, kernel_size=2, stride=2).
ConvTranspose(l, s) ==
    IF ~s.ok THEN s
    ELSE IF s.x[2] # l.in THEN Fail(s, "RuntimeError", "conv_transpose")
    ELSE [s EXCEPT !.x = <<s.x[1], l.out, s.x[3] * 2, s.x[4] * 2>>, !.applied = @ + 1]

\* torch.cat((skip_connection, input), dim=1).
Cat(skip, s) ==
    IF ~s.ok THEN s
    ELSE IF skip[1] # s.x[1] \/ skip[3] # s.x[3] \/ skip[4] # s.x[4]
         THEN Fail(s, "RuntimeError", "cat")
    ELSE [s EXCEPT !.x = <<s.x[1], skip[2] + s.x[2], s.x[3], s.x[4]>>]

\* The final 1x1 convolution.
FinalConvolution(l, s) ==
    IF ~s.ok THEN s
    ELSE IF s.x[2] # l.in THEN Fail(s, "RuntimeError", "conv")
    ELSE [s EXCEPT !.x = <<s.x[1], l.out, s.x[3], s.x[4]>>, !.applied = @ + 1]

\* for down in self.downs: ...
RECURSIVE Encode(_, _, _, _)
Encode(net, k, s, training) ==
    IF k > Len(net.downs) \/ ~s.ok THEN s
    ELSE LET d == DoubleConvolutionalBlock(net.downs[k], s, training)
             kept == IF d.ok THEN [d EXCEPT !.skips = Append(@, d.x)] ELSE d
         IN  Encode(net, k + 1, Pool(kept), training)

\* for index in range(0, len(self.ups), 2): ...
RECURSIVE Decode(_, _, _, _)
Decode(net, index, s, training) ==
    IF index >= Len(net.ups) \/ ~s.ok THEN s
    ELSE LET up == ConvTranspose(net.ups[index + 1], s)
             concat_skip == Cat(s.skips[(index \div 2) + 1], up)
         IN  Decode(net, index + 2,
                    DoubleConvolutionalBlock(net.ups[index + 2], concat_skip, training),
                    training)

\* UNet.forward without the test of divisibility by 2^depth.
ForwardMut(net, shape, training) ==
    LET start == [ok |-> TRUE, err |-> "", at |-> "", x |-> shape, skips |-> <<>>,
                  applied |-> 0]
    IN  IF Len(shape) < 4 THEN Fail(start, "IndexError", "forward")
        ELSE LET encoded == Encode(net, 1, start, training)
                 middle == DoubleConvolutionalBlock(net.bottleneck, encoded, training)
                 turned == IF middle.ok
                           THEN [middle EXCEPT !.skips = Reversed(@)] ELSE middle
             IN  FinalConvolution(net.final_convolution, Decode(net, 0, turned, training))

\* UNet.forward on an input of the given shape.
Forward(net, shape, training) ==
    LET start == [ok |-> TRUE, err |-> "", at |-> "", x |-> shape, skips |-> <<>>,
                  applied |-> 0]
        factor == Pow2(Len(net.downs))
    IN  IF Len(shape) < 4 THEN Fail(start, "IndexError", "forward")
        ELSE IF shape[4] % factor # 0 \/ shape[3] % factor # 0
             THEN Fail(start, "ValueError", "forward")
        ELSE LET encoded == Encode(net, 1, start, training)
                 middle == DoubleConvolutionalBlock(net.bottleneck, encoded, training)
                 turned == IF middle.ok
                           THEN [middle EXCEPT !.skips = Reversed(@)] ELSE middle
             IN  FinalConvolution(net.final_convolution, Decode(net, 0, turned, training))

\* ------------------------------------------------------ utilities.Dataset
\* A file name is modelled by filename.split("-"), the sequence of its
\* hyphen-delimited segments.
Universe ==
    { <<"a", "b", "c", "d", "image.png">>,
      <<"a", "b", "c", "d", "mask.png">>,
      <<"notes.txt">>,
      <<"a", "b", "c", "a", "image", "x.png">>,
      <<"a", "b", "c", "a", "mask", "x.png">>,
      <<".a", "b", "c", "d", "image">> }

SortModes == {"name", "date"}

\* filename[0] == "."
StartsWithDot(filename) == filename[1] \in {".a"}

\* The order of str on the segments that occur in ids.
SegRank(seg) == CASE seg = ".a" -> 0 [] seg = "a" -> 1 [] seg = "b" -> 2
                  [] seg = "c" -> 3 [] seg = "d" -> 4 [] OTHER -> 5

RECURSIVE LexLess(_, _)
LexLess(s, t) ==
    IF s = <<>> THEN t # <<>>
    ELSE IF t = <<>> THEN FALSE
    ELSE IF SegRank(Head(s)) # SegRank(Head(t)) THEN SegRank(Head(s)) < SegRank(Head(t))
    ELSE LexLess(Tail(s), Tail(t))

\* sorted(entry_list) for a list without duplicates, given as a set of ids.
RECURSIVE Sorted(_)
Sorted(ids) ==
    IF ids = {} THEN <<>>
    ELSE LET least == CHOOSE i \in ids : \A j \in ids \ {i} : LexLess(i, j)
         IN  <<least>> \o Sorted(ids \ {least})

\* Entry(image_path, mask_path); None is modelled by <<>>.
Entry(image_path, mask_path) == [image_path |-> image_path, mask_path |-> mask_path]

\* "-".join(parts[0:4])
IdOf(parts) == SubSeq(parts, 1, IF Len(parts) < 4 THEN Len(parts) ELSE 4)

\* One turn of the scanning loop of Dataset.__init__ for a listed name that
\* is a file of the directory.
ScanFile(acc, filename) ==
    IF ~acc.ok THEN acc
    ELSE IF StartsWithDot(filename) \/ Len(filename) # 5
    THEN IF Len(filename) < 5
         THEN [acc EXCEPT !.ok = FALSE, !.err = "IndexError"]
         ELSE LET id == IdOf(filename)
                  known == id \in DOMAIN acc.entry_map
              IN  IF filename[5] = "image"
                  THEN [acc EXCEPT !.entry_map =
                          IF known THEN [@ EXCEPT ![id].image_path = <<filename>>]
                          ELSE @ @@ (id :> Entry(<<filename>>, <<>>))]
                  ELSE IF filename[5] = "mask"
                  THEN [acc EXCEPT !.entry_map =
                          IF known THEN [@ EXCEPT ![id].mask_path = <<filename>>]
                          ELSE @ @@ (id :> Entry(<<>>, <<filename>>))]
                  ELSE acc
    ELSE acc

RECURSIVE Scan(_, _)
Scan(acc, filenames) ==
    IF filenames = {} THEN acc
    ELSE LET filename == CHOOSE f \in filenames : TRUE
         IN  Scan(ScanFile(acc, filename), filenames \ {filename})

\* Dataset(directory, sort): os.listdir() lists the current working
\* directory, os.path.isfile() looks into the given directory.  Deleting an
\* incomplete entry while iterating the dict raises RuntimeError; the keys
\* of the date and size orders call stat() on a str.
DatasetInit(cwd, directory, sort) ==
    LET scanned == Scan([ok |-> TRUE, err |-> "", entry_map |-> <<>>, entry_list |-> <<>>],
                        {f \in cwd : f \in directory})
        ids == DOMAIN scanned.entry_map
        incomplete == {id \in ids : scanned.entry_map[id].image_path = <<>>
                                    \/ scanned.entry_map[id].mask_path = <<>>}
    IN  IF ~scanned.ok THEN scanned
        ELSE IF incomplete # {}
        THEN [scanned EXCEPT !.ok = FALSE, !.err = "RuntimeError"]
        ELSE IF sort = "name" THEN [scanned EXCEPT !.entry_list = Sorted(ids)]
        ELSE IF ids # {} THEN [scanned EXCEPT !.ok = FALSE, !.err = "AttributeError"]
        ELSE scanned

\* MarkerLoader(dataset, width, height): Entry has no method exists().
MarkerLoaderInit(dataset) ==
    IF Len(dataset.entry_list) > 0
    THEN [ok |-> FALSE, err |-> "AttributeError", entries |-> <<>>]
    ELSE [ok |-> TRUE, err |-> "", entries |-> <<>>]

\* -------------------------------------------------------- marker/model.py
\* None is modelled by the empty sequence, a present value v by <<v>>.
None == <<>>

\* model.state_dict(): the layout of the parameters and their values.
StateDict(model) == [layout |-> model.net, version |-> model.version]

\* model.load_state_dict(state): fails when the layouts differ.
LoadStateDict(model, state) ==
    IF state.layout # model.net
    THEN [ok |-> FALSE, err |-> "RuntimeError", model |-> model]
    ELSE [ok |-> TRUE, err |-> "", model |-> [model EXCEPT !.version = state.version]]

\* Marker(device, width, height, depth).
MarkerInit(width, height, depth) ==
    LET net == UNetInit(3, 1, depth)
    IN  IF ~net.ok THEN [ok |-> FALSE, err |-> net.err, marker |-> None]
        ELSE [ok |-> TRUE, err |-> "",
              marker |-> <<[width |-> width, height |-> height, depth |-> depth,
                            loss |-> <<1, 1>>, iterations |-> 0,
                            model |-> [net |-> net, version |-> 0, training |-> TRUE],
                            optimizer |-> [step |-> 0]]>>]

\* The dict that Marker.save hands to torch.save.
Snapshot(m) ==
    [width |-> m.width, height |-> m.height, depth |-> m.depth,
     loss |-> m.loss, iterations |-> m.iterations,
     model_state |-> StateDict(m.model),
     optimizer_state |-> m.optimizer]

\* Marker.load that leaves the loss of the fresh Marker in place.
MarkerLoadMut(file) ==
    IF file = None THEN [ok |-> FALSE, err |-> "FileNotFoundError", marker |-> None]
    ELSE IF ~file[1].complete THEN [ok |-> FALSE, err |-> "UnpicklingError", marker |-> None]
    ELSE
      LET data == file[1].data
          made == MarkerInit(data.width, data.height, data.depth)
          loaded == LoadStateDict(made.marker[1].model, data.model_state)
      IN  IF ~made.ok THEN made
          ELSE IF ~loaded.ok THEN [ok |-> FALSE, err |-> loaded.err, marker |-> None]
          ELSE [ok |-> TRUE, err |-> "",
                marker |-> <<[made.marker[1] EXCEPT
                                !.model = loaded.model,
                                !.optimizer = data.optimizer_state,
                                !.iterations = data.iterations]>>]

\* Marker.load(device, path) on the content of the file at path.
MarkerLoad(file) ==
    IF file = None THEN [ok |-> FALSE, err |-> "FileNotFoundError", marker |-> None]
    ELSE IF ~file[1].complete THEN [ok |-> FALSE, err |-> "UnpicklingError", marker |-> None]
    ELSE
      LET data == file[1].data
          made == MarkerInit(data.width, data.height, data.depth)
          loaded == LoadStateDict(made.marker[1].model, data.model_state)
      IN  IF ~made.ok THEN made
          ELSE IF ~loaded.ok THEN [ok |-> FALSE, err |-> loaded.err, marker |-> None]
          ELSE [ok |-> TRUE, err |-> "",
                marker |-> <<[made.marker[1] EXCEPT
                                !.model = loaded.model,
                                !.optimizer = data.optimizer_state,
                                !.loss = data.loss,
                                !.iterations = data.iterations]>>]

\* Marker.mark that counts the call as an iteration.
MarkerMarkMut(m, image) ==
    [ok |-> FALSE, err |-> "IndexError", out |-> <<>>,
     marker |-> [m EXCEPT !.model.training = FALSE, !.iterations = @ + 1]]

\* Marker.mark(image): model.eval(), then fit_tensor, the forward pass, the
\* crop to the transform and the resize to image.shape[2] x image.shape[3].
MarkerMark(m, image) ==
    LET evaluating == [m EXCEPT !.model.training = FALSE]
        fitted == FitTensor(image, m.width, m.height)
        output == Forward(m.model.net, fitted.shape, FALSE)
        transform == fitted.transform
        cropped == <<output.x[1], output.x[2], transform[4], transform[3]>>
    IN  IF ~fitted.ok
        THEN [ok |-> FALSE, err |-> fitted.err, out |-> <<>>, marker |-> evaluating]
        ELSE IF ~output.ok
        THEN [ok |-> FALSE, err |-> output.err, out |-> <<>>, marker |-> evaluating]
        ELSE IF Len(image) < 4
        THEN [ok |-> FALSE, err |-> "IndexError", out |-> <<>>, marker |-> evaluating]
        ELSE [ok |-> TRUE, err |-> "",
              out |-> <<cropped[1], cropped[2], image[3], image[4]>>,
              marker |-> evaluating]

RECURSIVE Sum(_)
Sum(seq) == IF seq = <<>> THEN 0 ELSE Head(seq) + Sum(Tail(seq))

\* The loop of Marker.train over the batches of the loader.  A batch is
\* [n, loss]: its size and the loss the criterion returns for it; fault = i
\* says that producing batch i raises (0: the loader raises nowhere).
RECURSIVE TrainLoop(_, _, _, _, _)
TrainLoop(m, batches, i, fault, average) ==
    IF i > Len(batches) THEN [ok |-> TRUE, err |-> "", marker |-> m, average |-> average]
    ELSE IF fault = i
    THEN [ok |-> FALSE, err |-> "RuntimeError", marker |-> m, average |-> average]
    ELSE LET predictions == Forward(m.model.net, <<batches[i].n, 3, m.height, m.width>>, TRUE)
         IN  IF ~predictions.ok
             THEN [ok |-> FALSE, err |-> predictions.err, marker |-> m, average |-> average]
             ELSE TrainLoop([m EXCEPT !.model.version = @ + 1, !.optimizer.step = @ + 1],
                            batches, i + 1, fault, Append(average, batches[i].loss))

\* Marker.train that stores the sum of the losses instead of their mean.
MarkerTrainMutSum(m, batches, fault) ==
    LET run == TrainLoop([m EXCEPT !.model.training = TRUE], batches, 1, fault, <<>>)
        average == run.average
    IN  IF ~run.ok
        THEN [ok |-> FALSE, err |-> run.err, ret |-> <<>>, marker |-> run.marker,
              average |-> average]
        ELSE IF Len(average) = 0
        THEN [ok |-> FALSE, err |-> "ZeroDivisionError", ret |-> <<>>, marker |-> run.marker,
              average |-> average]
        ELSE LET trained == [run.marker EXCEPT
                               !.loss = Ratio(Sum(average), 1),
                               !.iterations = @ + 1]
             IN  [ok |-> TRUE, err |-> "", marker |-> trained, average |-> average,
                  ret |-> <<[loss |-> trained.loss, iterations |-> trained.iterations]>>]

\* Marker.train that increments iterations before the loop.
MarkerTrainMutEarly(m, batches, fault) ==
    LET counted == [m EXCEPT !.model.training = TRUE, !.iterations = @ + 1]
        run == TrainLoop(counted, batches, 1, fault, <<>>)
        average == run.average
    IN  IF ~run.ok
        THEN [ok |-> FALSE, err |-> run.err, ret |-> <<>>, marker |-> run.marker,
              average |-> average]
        ELSE IF Len(average) = 0
        THEN [ok |-> FALSE, err |-> "ZeroDivisionError", ret |-> <<>>, marker |-> run.marker,
              average |-> average]
        ELSE LET trained == [run.marker EXCEPT !.loss = Ratio(Sum(average), Len(average))]
             IN  [ok |-> TRUE, err |-> "", marker |-> trained, average |-> average,
                  ret |-> <<[loss |-> trained.loss, iterations |-> trained.iterations]>>]

\* Marker.train(loader).  The duration of the telemetry is wall-clock time
\* and is left out.
MarkerTrain(m, batches, fault) ==
    LET run == TrainLoop([m EXCEPT !.model.training = TRUE], batches, 1, fault, <<>>)
        average == run.average
    IN  IF ~run.ok
        THEN [ok |-> FALSE, err |-> run.err, ret |-> <<>>, marker |-> run.marker,
              average |-> average]
        ELSE IF Len(average) = 0
        THEN [ok |-> FALSE, err |-> "ZeroDivisionError", ret |-> <<>>, marker |-> run.marker,
              average |-> average]
        ELSE LET trained == [run.marker EXCEPT
                               !.loss = Ratio(Sum(average), Len(average)),
                               !.iterations = @ + 1]
             IN  [ok |-> TRUE, err |-> "", marker |-> trained, average |-> average,
                  ret |-> <<[loss |-> trained.loss, iterations |-> trained.iterations]>>]

\* ---------------------------------------------------------------- main.py
Paths == {"p1"}
Sizes == {<<2, 2>>, <<4, 4>>}
Depths == {0, 1, 2}
Images == {<<3, 3, 4>>, <<3, 4, 1>>, <<1, 3, 2, 2>>}
BatchSizes == {1, 2}
Batches == {[n |-> 1, loss |-> 1], [n |-> 2, loss |-> 3]}

RECURSIVE SeqsUpTo(_, _)
SeqsUpTo(S, n) ==
    IF n = 0 THEN {<<>>}
    ELSE LET shorter == SeqsUpTo(S, n - 1)
         IN  shorter \cup {Append(q, x) : q \in {r \in shorter : Len(r) = n - 1}, x \in S}

\* The batch iterables handed to train.
Loaders == SeqsUpTo(Batches, MaxBatches)

Call(op, status, err, arg, ret) ==
    [op |-> op, status |-> status, err |-> err, arg |-> arg, ret |-> ret]

Outcome(r) == IF r.ok THEN "ok" ELSE "raised"

\* init_marker(device, width, height, depth)
init_marker(width, height, depth) ==
    \E made \in {MarkerInit(width, height, depth)} :
        /\ saving = None
        /\ marker' = IF made.ok THEN made.marker ELSE marker
        /\ epochs' = IF made.ok THEN [epochs EXCEPT !.cur = 0] ELSE epochs
        /\ last' = Call("init_marker", Outcome(made), made.err, <<width, height, depth>>, <<>>)
        /\ UNCHANGED <<disk, saving, observed>>

\* load_marker(device, path)
load_marker(path) ==
    \E loaded \in {MarkerLoad(disk[path])} :
        /\ saving = None
        /\ marker' = IF loaded.ok THEN loaded.marker ELSE marker
        /\ epochs' = IF loaded.ok THEN [epochs EXCEPT !.cur = epochs.saved[path]] ELSE epochs
        /\ last' = Call("load_marker", Outcome(loaded), loaded.err, <<path>>, <<>>)
        /\ UNCHANGED <<disk, saving, observed>>

\* Marker.save(path), first part: torch.save evaluates the dict and opens
\* the file at path for writing, which truncates it.
MarkerSaveOpen(path) ==
    /\ disk' = [disk EXCEPT ![path] = <<[data |-> Snapshot(marker[1]), complete |-> FALSE]>>]
    /\ saving' = <<path>>
    /\ epochs' = [epochs EXCEPT !.saved[path] = epochs.cur]
    /\ last' = Call("save_marker", "running", "", <<path>>, <<>>)
    /\ UNCHANGED <<marker, observed>>

\* Marker.save(path), second part: the archive is written and closed.
MarkerSaveClose ==
    /\ saving # None
    /\ disk' = [disk EXCEPT ![saving[1]] = <<[@[1] EXCEPT !.complete = TRUE]>>]
    /\ saving' = None
    /\ last' = Call("save_marker", "ok", "", saving, <<>>)
    /\ UNCHANGED <<marker, observed, epochs>>

\* save_marker that returns silently when no Marker is loaded.
save_marker_mut(path) ==
    /\ saving = None
    /\ IF marker = None
       THEN /\ last' = Call("save_marker", "ok", "", <<path>>, <<>>)
            /\ UNCHANGED <<marker, disk, saving, observed, epochs>>
       ELSE MarkerSaveOpen(path)

\* save_marker(path)
save_marker(path) ==
    /\ saving = None
    /\ IF marker = None
       THEN /\ last' = Call("save_marker", "raised", "Exception", <<path>>, <<>>)
            /\ UNCHANGED <<marker, disk, saving, observed, epochs>>
       ELSE MarkerSaveOpen(path)

\* marker.mark(image) on the current marker
mark(image) ==
    /\ saving = None
    /\ marker # None
    /\ \E marked \in {MarkerMark(marker[1], image)} :
           /\ marker' = <<marked.marker>>
           /\ last' = Call("mark", Outcome(marked), marked.err, image, marked.out)
    /\ UNCHANGED <<disk, saving, observed, epochs>>

\* marker.train(loader) on the current marker
train(batches, fault) ==
    /\ saving = None
    /\ marker # None
    /\ marker[1].iterations < MaxIter
    /\ marker[1].model.version + Len(batches) <= MaxSteps
    /\ \E trained \in {MarkerTrain(marker[1], batches, fault)} :
           /\ marker' = <<trained.marker>>
           /\ epochs' = IF trained.ok THEN [epochs EXCEPT !.cur = @ + 1] ELSE epochs
           /\ last' = Call("train", Outcome(trained), trained.err,
                           [count |-> Len(batches), losses |-> trained.average],
                           trained.ret)
    /\ UNCHANGED <<disk, saving, observed>>

\* Another process reads the file at path, as Marker.load would.
Reader(path) ==
    /\ observed' = [path |-> path,
                    view |-> IF disk[path] = None THEN "absent"
                             ELSE IF disk[path][1].complete THEN "complete"
                             ELSE "partial"]
    /\ UNCHANGED <<marker, disk, saving, last, epochs>>

Init ==
    /\ marker = None
    /\ disk = [p \in Paths |-> None]
    /\ saving = None
    /\ last = Call("", "", "", <<>>, <<>>)
    /\ observed = [path |-> "", view |-> ""]
    /\ epochs = [cur |-> 0, saved |-> [p \in Paths |-> 0]]
    /\ fitIn = <<>> /\ fitOut = <<>>
    /\ netIn = <<>> /\ netOut = <<>>
    /\ dsIn = <<>> /\ dsOut = <<>>

Next ==
    \/ /\ \E size \in Sizes, depth \in Depths : init_marker(size[1], size[2], depth)
       /\ UNCHANGED <<fitVars, netVars, dsVars>>
    \/ /\ \E path \in Paths : load_marker(path)
       /\ UNCHANGED <<fitVars, netVars, dsVars>>
    \/ /\ \E path \in Paths : save_marker(path)
       /\ UNCHANGED <<fitVars, netVars, dsVars>>
    \/ /\ MarkerSaveClose
       /\ UNCHANGED <<fitVars, netVars, dsVars>>
    \/ /\ \E image \in Images : mark(image)
       /\ UNCHANGED <<fitVars, netVars, dsVars>>
    \/ /\ \E batches \in Loaders :
            \E fault \in 0..Len(batches) : train(batches, fault)
       /\ UNCHANGED <<fitVars, netVars, dsVars>>

Spec == Init /\ [][Next]_vars

\* The host together with a reader of the snapshot files in another process.
ReaderNext ==
    \/ Next
    \/ /\ \E path \in Paths : Reader(path)
       /\ UNCHANGED <<fitVars, netVars, dsVars>>

SpecReader == Init /\ [][ReaderNext]_vars

\* ------------------------------------------- the letterbox transform alone
FitShapes ==
    {<<3, sh, sw>> : sh \in 1..MaxDim, sw \in 1..MaxDim} \cup {<<2, 2>>, <<1, 3, 2, 2>>}

FitInit ==
    /\ fitIn \in [shape : FitShapes, width : 1..MaxDim, height : 1..MaxDim]
    /\ fitOut = None
    /\ marker = None /\ disk = <<>> /\ saving = None /\ last = <<>>
    /\ observed = <<>> /\ epochs = <<>>
    /\ netIn = <<>> /\ netOut = <<>>
    /\ dsIn = <<>> /\ dsOut = <<>>

FitCall ==
    /\ fitOut = None
    /\ fitOut' = <<FitTensor(fitIn.shape, fitIn.width, fitIn.height)>>
    /\ UNCHANGED <<fitIn, hostVars, netVars, dsVars>>

FitNext == FitCall

SpecFit == FitInit /\ [][FitNext]_vars

\* ------------------------------------------------------- the U-Net alone
NetInit ==
    /\ netIn \in [depth : 1..MaxDepth, n : BatchSizes, h : 1..MaxDim, w : 1..MaxDim,
                  training : BOOLEAN]
    /\ netOut = None
    /\ marker = None /\ disk = <<>> /\ saving = None /\ last = <<>>
    /\ observed = <<>> /\ epochs = <<>>
    /\ fitIn = <<>> /\ fitOut = <<>>
    /\ dsIn = <<>> /\ dsOut = <<>>

NetCall ==
    /\ netOut = None
    /\ netOut' = <<Forward(UNetInit(3, 1, netIn.depth), <<netIn.n, 3, netIn.h, netIn.w>>,
                           netIn.training)>>
    /\ UNCHANGED <<netIn, hostVars, fitVars, dsVars>>

NetNext == NetCall

SpecNet == NetInit /\ [][NetNext]_vars

\* ------------------------------------------------ the dataset discovery
DsInit ==
    /\ dsIn \in [cwd : SUBSET Universe, directory : SUBSET Universe, sort : SortModes]
    /\ dsOut = [stage |-> "start", dataset |-> <<>>, loader |-> <<>>]
    /\ marker = None /\ disk = <<>> /\ saving = None /\ last = <<>>
    /\ observed = <<>> /\ epochs = <<>>
    /\ fitIn = <<>> /\ fitOut = <<>>
    /\ netIn = <<>> /\ netOut = <<>>

\* dataset = Dataset(directory, sort)
DatasetNew ==
    /\ dsOut.stage = "start"
    /\ dsOut' = [dsOut EXCEPT !.stage = "dataset",
                              !.dataset = <<DatasetInit(dsIn.cwd, dsIn.directory, dsIn.sort)>>]
    /\ UNCHANGED <<dsIn, hostVars, fitVars, netVars>>

\* MarkerLoader(dataset, width, height)
MarkerLoaderNew ==
    /\ dsOut.stage = "dataset"
    /\ dsOut.dataset[1].ok
    /\ dsOut' = [dsOut EXCEPT !.stage = "loader",
                              !.loader = <<MarkerLoaderInit(dsOut.dataset[1])>>]
    /\ UNCHANGED <<dsIn, hostVars, fitVars, netVars>>

DsNext == DatasetNew \/ MarkerLoaderNew

SpecDataset == DsInit /\ [][DsNext]_vars

\* ================================================================ claims

\* C1: a trainEpoch call over N >= 1 batches that completes normally sets
\* loss to the arithmetic mean of the N losses recorded in that call,
\* increments iterations by exactly 1, and returns a telemetry record whose
\* loss and iterations are the Marker's new loss and iterations.
C1_TrainEpochMean ==
    [][(last'.op = "train" /\ last'.status = "ok") =>
         LET losses == last'.arg.losses
             N == Len(losses)
             after == marker'[1]
         IN  /\ N >= 1
             /\ N = last'.arg.count
             /\ after.loss[2] > 0
             /\ after.loss[1] * N = Sum(losses) * after.loss[2]
             /\ after.iterations = marker[1].iterations + 1
             /\ last'.ret = <<[loss |-> after.loss, iterations |-> after.iterations]>>]_vars

\* C1 witness: a second epoch over two batches with different losses has
\* completed.
C1_Witness ==
    /\ last.op = "train" /\ last.status = "ok"
    /\ last.arg.losses = <<1, 3>>
    /\ marker[1].iterations = 2
    /\ marker[1].loss = <<2, 1>>

\* C2: on a Ready Marker whose width and height are divisible by 2^depth,
\* mark applied to an image that the letterbox transform accepts completes
\* without raising and returns a mask whose spatial size is the height and
\* width of the image.
C2_MarkReturnsMask ==
    (/\ last.op = "mark"
     /\ marker[1].width % Pow2(marker[1].depth) = 0
     /\ marker[1].height % Pow2(marker[1].depth) = 0
     /\ FitTensor(last.arg, marker[1].width, marker[1].height).ok)
    => /\ last.status = "ok"
       /\ Len(last.ret) = 4
       /\ last.ret[3] = last.arg[2]
       /\ last.ret[4] = last.arg[3]

\* C3: save(path) writes the Marker's width, height, depth, loss,
\* iterations, weights and optimizer state; load of a completely written
\* snapshot never fails, builds the architecture with the snapshot's depth,
\* and yields a Marker equal to the snapshot in all of these, whose
\* iterations count the trainEpoch calls completed since create.
C3_RoundTrip ==
    [][/\ (last'.op = "save_marker" /\ last'.status = "ok") =>
            disk'[last'.arg[1]] = <<[data |-> Snapshot(marker[1]), complete |-> TRUE]>>
       /\ (/\ last'.op = "load_marker"
           /\ disk[last'.arg[1]] # None
           /\ disk[last'.arg[1]][1].complete) =>
            LET data == disk[last'.arg[1]][1].data
            IN  /\ last'.status = "ok"
                /\ Snapshot(marker'[1]) = data
                /\ marker'[1].model.net = UNetInit(3, 1, data.depth)
                /\ marker'[1].iterations = epochs'.cur
       /\ (marker' # None => marker'[1].iterations = epochs'.cur)]_vars

\* C3 witness: a Marker trained for at least one epoch, with a loss other
\* than the initial one, has been saved and loaded again.
C3_Witness ==
    /\ last.op = "load_marker" /\ last.status = "ok"
    /\ marker[1].iterations >= 1
    /\ marker[1].loss # <<1, 1>>
    /\ marker[1].depth = 2
    /\ Snapshot(marker[1]) = disk[last.arg[1]][1].data

\* C4 (as amended): for depth >= 1 and an input (batch, 3, H, W), when H
\* and W are divisible by 2^depth and the network is in evaluation mode or
\* more than one value per channel reaches the bottleneck, the forward pass
\* succeeds with output (batch, 1, H, W) after all 4 * depth + 2 layers;
\* when H or W is not divisible, it raises ValueError before any layer is
\* applied.
C4_ForwardShape ==
    netOut # None =>
      LET out == netOut[1]
          factor == Pow2(netIn.depth)
          divisible == netIn.h % factor = 0 /\ netIn.w % factor = 0
          values == netIn.n * (netIn.h \div factor) * (netIn.w \div factor)
      IN  /\ (divisible /\ (~netIn.training \/ values > 1)) =>
                /\ out.ok
                /\ out.x = <<netIn.n, 1, netIn.h, netIn.w>>
                /\ out.applied = 4 * netIn.depth + 2
          /\ ~divisible =>
                /\ ~out.ok
                /\ out.err = "ValueError" /\ out.at = "forward"
                /\ out.applied = 0

\* C4 witness: a forward pass in training mode through two encoder and two
\* decoder stages has succeeded.
C4_Witness ==
    /\ netOut # None
    /\ netOut[1].ok
    /\ netIn.depth = 2 /\ netIn.training
    /\ netOut[1].x = <<2, 1, 4, 4>>

\* C4 (as claimed): whenever H and W are divisible by 2^depth the forward
\* pass succeeds with output (batch, 1, H, W), and otherwise it raises
\* before any layer is applied.
C4_Original ==
    netOut # None =>
      LET out == netOut[1]
          factor == Pow2(netIn.depth)
          divisible == netIn.h % factor = 0 /\ netIn.w % factor = 0
      IN  /\ divisible => (out.ok /\ out.x = <<netIn.n, 1, netIn.h, netIn.w>>)
          /\ ~divisible => (~out.ok /\ out.applied = 0)

\* C5 (as amended): the geometry returned by fit_tensor has placedWidth <=
\* W and placedHeight <= H; placedWidth = W when the source is relatively
\* wider than the container and placedHeight = H otherwise, so at least
\* one of the two equals its container dimension; both do when the aspect
\* ratios are equal.
C5_Geometry ==
    (fitOut # None /\ fitOut[1].ok) =>
      LET t == fitOut[1].transform
          W == fitIn.width
          H == fitIn.height
          sw == fitIn.shape[3]
          sh == fitIn.shape[2]
      IN  /\ t[3] >= 1 /\ t[3] <= W
          /\ t[4] >= 1 /\ t[4] <= H
          /\ sw * H > W * sh => t[3] = W
          /\ sw * H <= W * sh => t[4] = H
          /\ sw * H = W * sh => (t[3] = W /\ t[4] = H)

\* C5 witness: a source whose aspect ratio differs from the container's is
\* placed with both extents equal to the container's, the free axis having
\* rounded up.
C5_Witness ==
    /\ fitOut # None /\ fitOut[1].ok
    /\ fitIn.shape[3] * fitIn.height # fitIn.width * fitIn.shape[2]
    /\ fitOut[1].transform[3] = fitIn.width
    /\ fitOut[1].transform[4] = fitIn.height

\* C5 (as claimed): placedWidth <= W, placedHeight <= H, and exactly one of
\* placedWidth = W, placedHeight = H holds unless the aspect ratios are
\* exactly equal, in which case both hold.
C5_Original ==
    (fitOut # None /\ fitOut[1].ok) =>
      LET t == fitOut[1].transform
          W == fitIn.width
          H == fitIn.height
          equalAspect == fitIn.shape[3] * H = W * fitIn.shape[2]
      IN  /\ t[3] <= W /\ t[4] <= H
          /\ equalAspect => (t[3] = W /\ t[4] = H)
          /\ ~equalAspect => ((t[3] = W) # (t[4] = H))

\* C6: a reader of the path that runs concurrently with a save observes the
\* complete previous content (or the absence of the file) or the complete
\* new snapshot, never a partially written file.
C6_AtomicSave == observed.view # "partial"

\* C7: a trainEpoch call that raises leaves loss and iterations at their
\* values before the call and returns no telemetry; a call whose iterable
\* yields no batch raises ZeroDivisionError.
C7_FailedEpoch ==
    [][/\ (last'.op = "train" /\ last'.status = "raised") =>
            /\ marker'[1].loss = marker[1].loss
            /\ marker'[1].iterations = marker[1].iterations
            /\ last'.ret = <<>>
       /\ (last'.op = "train" /\ last'.arg.count = 0) =>
            /\ last'.status = "raised"
            /\ last'.err = "ZeroDivisionError"]_vars

\* C7 witness: in the second epoch a batch step has raised after an earlier
\* batch of the same call had been applied.
C7_Witness ==
    /\ last.op = "train" /\ last.status = "raised"
    /\ Len(last.arg.losses) >= 1
    /\ last.arg.count > Len(last.arg.losses)
    /\ marker[1].iterations = 1
    /\ marker[1].model.version >= 2

\* C8: a mark call, whether it returns or raises, leaves loss, iterations,
\* the weights and the optimizer state unchanged, and a mark call that
\* directly follows a mark call on the same image has the same outcome.
C8_MarkFrame ==
    [][last'.op = "mark" =>
         /\ marker'[1].loss = marker[1].loss
         /\ marker'[1].iterations = marker[1].iterations
         /\ StateDict(marker'[1].model) = StateDict(marker[1].model)
         /\ marker'[1].optimizer = marker[1].optimizer
         /\ (last.op = "mark" /\ last.arg = last'.arg) =>
               /\ last'.status = last.status
               /\ last'.err = last.err
               /\ last'.ret = last.ret]_vars

\* C8 witness: mark has been called on a trained Marker.
C8_Witness ==
    /\ last.op = "mark"
    /\ marker[1].iterations >= 1
    /\ marker[1].model.version >= 1
    /\ ~marker[1].model.training

\* C9: save_marker without a current Marker raises, writes nothing and
\* leaves the host without a Marker; a successful init_marker or
\* load_marker leaves a Marker, which stays; save_marker with a current
\* Marker starts writing that Marker's snapshot to the path.
C9_SaveGuard ==
    [][/\ (last'.op = "save_marker" /\ marker = None) =>
            /\ last'.status = "raised"
            /\ disk' = disk
            /\ marker' = None
       /\ (last'.op \in {"init_marker", "load_marker"} /\ last'.status = "ok") =>
            marker' # None
       /\ (marker # None => marker' # None)
       /\ (last'.op = "save_marker" /\ marker # None /\ saving = None) =>
            /\ saving' = last'.arg
            /\ disk'[last'.arg[1]][1].data = Snapshot(marker[1])]_vars

\* C9 witness: save_marker has raised while the host holds no Marker.
C9_Witness ==
    /\ last.op = "save_marker" /\ last.status = "raised" /\ last.err = "Exception"
    /\ marker = None
    /\ \A p \in Paths : disk[p] = None

\* "image.png" names the role image, "mask.png" the role mask.
RoleOf(segment) == CASE segment = "image.png" -> "image"
                     [] segment = "mask.png" -> "mask"
                     [] OTHER -> ""

ExpectedIds(directory) ==
    {IdOf(f) : f \in {g \in directory : Len(g) = 5 /\ RoleOf(g[5]) = "image"}}
    \cap {IdOf(f) : f \in {g \in directory : Len(g) = 5 /\ RoleOf(g[5]) = "mask"}}

\* C10: the construction of the Dataset completes without raising and its
\* entry list holds exactly one entry for each id a-b-c-d that has both an
\* a-b-c-d-image.<ext> and an a-b-c-d-mask.<ext> file in the directory, and
\* with sort mode name the list is in ascending order of ids.
C10_Discovery ==
    dsOut.stage # "start" =>
      LET dataset == dsOut.dataset[1]
          list == dataset.entry_list
      IN  /\ dataset.ok
          /\ {list[i] : i \in 1..Len(list)} = ExpectedIds(dsIn.directory)
          /\ Len(list) = Cardinality(ExpectedIds(dsIn.directory))
          /\ dsIn.sort = "name" =>
                \A i \in 1..(Len(list) - 1) : LexLess(list[i], list[i + 1])

====
